---- MODULE Spec2Model ----
(***************************************************************************)
(* A state-machine model of the session / credential lifecycle of          *)
(* Auth_Backend: password login, token issuance, refresh-token rotation    *)
(* and revocation, and the TOTP second-factor state machine.               *)
(*                                                                         *)
(* The store is the relational database behind SQLAlchemy: `users`,        *)
(* `refresh_tokens` and `oauth_accounts` are its tables.  Every route      *)
(* handler is one action, except POST /auth/refresh, split at its two      *)
(* database round trips (the SELECT and the COMMIT) so that concurrent     *)
(* requests can interleave there.  A handler is written as a function of   *)
(* the store and its inputs that yields the response and the tables it     *)
(* commits; the action of the route applies it.  Time is the wall clock in *)
(* whole seconds, the resolution of a JWT `exp` claim.                     *)
(***************************************************************************)
EXTENDS Integers, FiniteSets, Sequences, Bags, TLC

\* ------------------------------------------------------------------ bounds
MaxUsers == 2       \* user rows ever inserted
MaxIssued == 2      \* token pairs ever issued
MaxTicks == 2       \* clock advances

\* ------------------------------------------------------- program constants
ACCESS_TOKEN_EXPIRE_MINUTES == 30
REFRESH_TOKEN_EXPIRE_DAYS == 7
TOTP_INTERVAL == 30
VALID_WINDOW == 1

AccessTTL == ACCESS_TOKEN_EXPIRE_MINUTES * 60
RefreshTTL == REFRESH_TOKEN_EXPIRE_DAYS * 24 * 60 * 60

\* ------------------------------------------------------------ input sets
Emails == {"a@x.com", "b@x.com"}
\* What a caller may type as an email: those, and one nobody registers.
LoginEmails == Emails \cup {"nobody@x.com"}
\* bcrypt reads the first 72 bytes of a password (passlib truncates without
\* an error unless truncate_error is set, and the context does not set it).
BCRYPT_MAX_BYTES == 72

\* LongPassword has one character more than bcrypt reads,
\* LongPasswordMutated differs from it in that last character only, and
\* OtherPassword differs from both in its first characters.
Passphrase == "correct-horse-battery-staple-correct"

LongPassword == Passphrase \o Passphrase \o "1"
LongPasswordMutated == Passphrase \o Passphrase \o "2"
OtherPassword == "pw654321"

Passwords == {LongPassword, LongPasswordMutated, OtherPassword}
\* Up to a renaming of passwords, the one a user registers with.
RegisteredPasswords == {LongPassword}
Salts == {"salt1"}
Secrets == {"JBSWY3DP", "KRSXG5DT"}
Workers == {"w1", "w2"}
GoogleIds == {"g-123"}
ClockSteps == {1, RefreshTTL}

SECRET_KEY == "secret-key"
ForgedKey == "not-the-key"

NoSecret == "None"
NoHash == <<>>
NoUser == 0

VARIABLES
    users,           \* table users: id -> row
    refresh_tokens,  \* table refresh_tokens: set of rows
    oauth_accounts,  \* table oauth_accounts: set of rows
    now,             \* wall clock, seconds
    ticks,           \* number of clock advances so far
    next_id,         \* next fresh users.id (uuid4 never repeats)
    returned,        \* every token string handed to a caller so far
    rotations,       \* <<old, new>> for every rotation that committed
    req,             \* bag of requests in flight, between reads and commit
    resp,            \* the response sent last
    challenged       \* the users a password login has answered requires_2fa for

vars == <<users, refresh_tokens, oauth_accounts, now, ticks, next_id,
          returned, rotations, req, resp, challenged>>

\* ---------------------------------------------------------- core/security
\* passlib bcrypt: the hash carries its salt; verification re-hashes the
\* candidate under the stored salt and compares.
\* The hash is a function of the salt and of the bytes bcrypt reads.
Truncated(password) ==
    IF Len(password) > BCRYPT_MAX_BYTES
    THEN SubSeq(password, 1, BCRYPT_MAX_BYTES)
    ELSE password

Bcrypt(salt, password) == <<"bcrypt", salt, Truncated(password)>>

hash_password(salt, password) == Bcrypt(salt, password)

verify_password(plain_password, hashed_password) ==
    Bcrypt(hashed_password[2], plain_password) = hashed_password

\* python-jose HS256: the signature is a function of key and payload; `exp`
\* is encoded in whole seconds.
HS256(key, payload) == <<key, payload>>

jwt_encode(payload, key) == [payload |-> payload, sig |-> HS256(key, payload)]

create_access_token(subject, t) ==
    jwt_encode([sub |-> subject, exp |-> t + AccessTTL, type |-> "access"],
               SECRET_KEY)

create_refresh_token(subject, t) ==
    jwt_encode([sub |-> subject, exp |-> t + RefreshTTL, type |-> "refresh"],
               SECRET_KEY)

\* The codec with no check of `exp`.
decode_token_ignoring_exp(token, t) ==
    IF token.sig = HS256(SECRET_KEY, token.payload)
    THEN {token.payload}
    ELSE {}

\* decode_token: the set holding the payload, or {} for None (JWTError on a
\* bad signature or an `exp` in the past).  jwt.decode is called with its
\* default options: it requires no claim, and checks `exp` when the payload
\* has one.
decode_token(token, t) ==
    IF /\ token.sig = HS256(SECRET_KEY, token.payload)
       /\ ~("exp" \in DOMAIN token.payload /\ token.payload.exp < t)
    THEN {token.payload}
    ELSE {}

\* payload.get("type") and payload.get("sub"), with their None.
NoType == "None"

payload_type(payload) ==
    IF "type" \in DOMAIN payload THEN payload.type ELSE NoType

payload_sub(payload) ==
    IF "sub" \in DOMAIN payload THEN payload.sub ELSE NoUser

\* -------------------------------------------------------- core/two_factor
\* pyotp: the code of a secret for one 30-second step.
TotpAt(secret, step) == <<secret, step>>

TimeStep(t) == t \div TOTP_INTERVAL

\* The check with no window: the code of the current step only.
verify_totp_current_step(secret, code, t) ==
    code = TotpAt(secret, TimeStep(t))

verify_totp(secret, code, t) ==
    \E i \in (0 - VALID_WINDOW)..VALID_WINDOW :
        code = TotpAt(secret, TimeStep(t) + i)

\* ------------------------------------------------------------ the tables
\* A row whose is_verified defaults to true.
NewUserVerified(email, hashed_password) ==
    [email |-> email, hashed_password |-> hashed_password,
     is_active |-> TRUE, is_verified |-> TRUE,
     two_factor_enabled |-> FALSE, two_factor_secret |-> NoSecret]

NewUser(email, hashed_password) ==
    [email |-> email, hashed_password |-> hashed_password,
     is_active |-> TRUE, is_verified |-> FALSE,
     two_factor_enabled |-> FALSE, two_factor_secret |-> NoSecret]

NewRefreshToken(user_id, token_hash, expires_at) ==
    [user_id |-> user_id, token_hash |-> token_hash,
     expires_at |-> expires_at, revoked |-> FALSE]

\* The token stored as it is.
_hash_token_raw(token) == token

\* hashlib.sha256(...).hexdigest(): a digest, a value of another kind than the
\* token it is taken of, and one per token.
_hash_token(token) == [sha256 |-> token]

TokenHashes == {r.token_hash : r \in refresh_tokens}

\* ---------------------------------------------------------- user_service
get_user_by_id(user_id) ==
    IF user_id \in DOMAIN users THEN user_id ELSE NoUser

get_user_by_email(email) ==
    IF \E u \in DOMAIN users : users[u].email = email
    THEN CHOOSE u \in DOMAIN users : users[u].email = email
    ELSE NoUser

\* -------------------------------------------------------------- responses
\* A handler is a function of the store and its inputs: it yields the
\* response and the tables as its commit leaves them.
Response(op, status, detail, tokens, user_id) ==
    [op |-> op, status |-> status, detail |-> detail, tokens |-> tokens,
     user_id |-> user_id]

TokenPair(access_token, refresh_token) ==
    [access_token |-> access_token, refresh_token |-> refresh_token]

Out(response, users_, refresh_tokens_) ==
    [resp |-> response, users |-> users_, refresh_tokens |-> refresh_tokens_,
     oauth_accounts |-> oauth_accounts]

\* A response that leaves the store as it is.
Reply(response) == Out(response, users, refresh_tokens)

TokensOf(response) ==
    UNION {{p.access_token, p.refresh_token} : p \in response.tokens}

\* The user a response sends on to the second-factor step: login and
\* login_oauth2 answer {"requires_2fa": true, "user_id": ...} after
\* authenticate_user returned a user who has two_factor_enabled.
PasswordStep(response) ==
    IF /\ response.op \in {"login", "token"}
       /\ response.status = 200
       /\ response.detail = "requires_2fa"
    THEN {response.user_id}
    ELSE {}

\* The handler's transaction commits and its response is sent.
Commit(out) ==
    /\ users' = out.users
    /\ refresh_tokens' = out.refresh_tokens
    /\ oauth_accounts' = out.oauth_accounts
    /\ returned' = returned \cup TokensOf(out.resp)
    /\ resp' = out.resp
    /\ challenged' = challenged \cup PasswordStep(out.resp)

Init ==
    /\ users = <<>>
    /\ refresh_tokens = {}
    /\ oauth_accounts = {}
    /\ now = 0
    /\ ticks = 0
    /\ next_id = 1
    /\ returned = {}
    /\ rotations = {}
    /\ req = EmptyBag
    /\ resp = Response("none", 0, "", {}, NoUser)
    /\ challenged = {}

\* ------------------------------------------------------------------ clock
Tick ==
    /\ ticks < MaxTicks
    /\ \E d \in ClockSteps : now' = now + d
    /\ ticks' = ticks + 1
    /\ UNCHANGED <<users, refresh_tokens, oauth_accounts, next_id, returned,
                   rotations, req, resp, challenged>>

\* ---------------------------------------------- POST /auth/register
\* create_user; `id` is the uuid4 the row's default draws, `salt` the salt
\* bcrypt draws.
create_user(id, email, password, salt) ==
    IF get_user_by_email(email) # NoUser
    THEN Reply(Response("register", 400, "Email already registered", {},
                        NoUser))
    ELSE Out(Response("register", 201, "Created", {}, id),
             [u \in DOMAIN users \cup {id} |->
                 IF u = id THEN NewUser(email, hash_password(salt, password))
                 ELSE users[u]],
             refresh_tokens)

Register ==
    \E email \in Emails, password \in RegisteredPasswords, salt \in Salts :
        LET out == create_user(next_id, email, password, salt) IN
        /\ next_id <= MaxUsers
        /\ Commit(out)
        /\ next_id' = IF out.resp.status = 201 THEN next_id + 1 ELSE next_id
        /\ UNCHANGED <<now, ticks, rotations, req>>

\* ------------------------------------------------------------ auth_service
\* The lookup alone, the password not verified.
authenticate_user_by_email(email, password) ==
    LET user == get_user_by_email(email) IN
    IF user = NoUser THEN NoUser
    ELSE IF users[user].hashed_password = NoHash THEN NoUser
    ELSE user

\* authenticate_user: the user's id, or NoUser for None.
authenticate_user(email, password) ==
    LET user == get_user_by_email(email) IN
    IF user = NoUser THEN NoUser
    ELSE IF users[user].hashed_password = NoHash THEN NoUser
    ELSE IF ~verify_password(password, users[user].hashed_password) THEN NoUser
    ELSE user

\* create_tokens: mints both tokens, inserts the refresh token's row and
\* commits.  refresh_tokens.token_hash is UNIQUE: a commit that inserts a
\* second row with the hash raises IntegrityError, the session rolls back and
\* the request ends in a 500.
\* The pair minted and returned with no row inserted.
create_tokens_unrecorded(op, user_id) ==
    LET access_token == create_access_token(user_id, now)
        refresh_token == create_refresh_token(user_id, now)
    IN  Out(Response(op, 200, "OK",
                     {TokenPair(access_token, refresh_token)}, NoUser),
            users,
            refresh_tokens)

create_tokens(op, user_id) ==
    LET access_token == create_access_token(user_id, now)
        refresh_token == create_refresh_token(user_id, now)
        db_token == NewRefreshToken(user_id, _hash_token(refresh_token),
                                    now + RefreshTTL)
    IN  IF db_token.token_hash \in TokenHashes
        THEN Reply(Response(op, 500, "IntegrityError", {}, NoUser))
        ELSE Out(Response(op, 200, "OK",
                          {TokenPair(access_token, refresh_token)}, NoUser),
                 users,
                 refresh_tokens \cup {db_token})

\* verify_2fa_login: None (a 401 from the route) or create_tokens.
verify_2fa_login(op, user, code) ==
    IF ~users[user].two_factor_enabled
       \/ users[user].two_factor_secret = NoSecret
    THEN Reply(Response(op, 401, "Invalid 2FA code", {}, NoUser))
    ELSE IF ~verify_totp(users[user].two_factor_secret, code, now)
    THEN Reply(Response(op, 401, "Invalid 2FA code", {}, NoUser))
    ELSE create_tokens(op, user)

\* The resolution without its check of the token's kind.
get_user_from_token_any_kind(token) ==
    LET payload == decode_token(token, now) IN
    IF payload = {} THEN NoUser
    ELSE LET p == CHOOSE x \in payload : TRUE IN
         IF payload_sub(p) = NoUser THEN NoUser
         ELSE get_user_by_id(payload_sub(p))

\* get_user_from_token: the user's id, or NoUser for None.
get_user_from_token(token) ==
    LET payload == decode_token(token, now) IN
    IF payload = {} THEN NoUser
    ELSE LET p == CHOOSE x \in payload : TRUE IN
         IF payload_type(p) # "access" THEN NoUser
         ELSE IF payload_sub(p) = NoUser THEN NoUser
         ELSE get_user_by_id(payload_sub(p))

\* The refresh tokens handed out so far; the bound on issuance counts them.
Issued == {t \in returned : t.payload.type = "refresh"}

CanIssue == Cardinality(Issued) < MaxIssued

Bounded(out) == out.resp.tokens = {} \/ CanIssue

\* ------------------------------------------------- POST /auth/login
\* The account-status gate put before the credentials are verified.
login_checks_active_first(email, password) ==
    LET found == get_user_by_email(email)
        user == authenticate_user(email, password)
    IN
    IF found # NoUser /\ ~users[found].is_active
    THEN Reply(Response("login", 403, "User account is deactivated", {},
                        NoUser))
    ELSE IF user = NoUser
    THEN Reply(Response("login", 401, "Invalid email or password", {}, NoUser))
    ELSE IF users[user].two_factor_enabled
    THEN Reply(Response("login", 200, "requires_2fa", {}, user))
    ELSE create_tokens("login", user)

login(email, password) ==
    LET user == authenticate_user(email, password) IN
    IF user = NoUser
    THEN Reply(Response("login", 401, "Invalid email or password", {}, NoUser))
    ELSE IF ~users[user].is_active
    THEN Reply(Response("login", 403, "User account is deactivated", {},
                        NoUser))
    ELSE IF users[user].two_factor_enabled
    THEN Reply(Response("login", 200, "requires_2fa", {}, user))
    ELSE create_tokens("login", user)

Login ==
    \E email \in LoginEmails, password \in Passwords :
        /\ Bounded(login(email, password))
        /\ Commit(login(email, password))
        /\ UNCHANGED <<now, ticks, next_id, rotations, req>>

\* ------------------------------------------------- POST /auth/token
login_oauth2(username, password) ==
    LET user == authenticate_user(username, password) IN
    IF user = NoUser
    THEN Reply(Response("token", 401, "Invalid email or password", {}, NoUser))
    ELSE IF ~users[user].is_active
    THEN Reply(Response("token", 403, "User account is deactivated", {},
                        NoUser))
    ELSE IF users[user].two_factor_enabled
    THEN Reply(Response("token", 200, "requires_2fa", {}, user))
    ELSE create_tokens("token", user)

LoginOAuth2 ==
    \E username \in LoginEmails, password \in Passwords :
        /\ Bounded(login_oauth2(username, password))
        /\ Commit(login_oauth2(username, password))
        /\ UNCHANGED <<now, ticks, next_id, rotations, req>>

\* ------------------------------------------------- POST /auth/login/2fa
\* The codes a caller may submit: the current code of any secret, and a
\* code of any secret that is two steps stale.
CodeOffsets == {0, -2}

Codes == {TotpAt(s, TimeStep(now) + d) : s \in Secrets, d \in CodeOffsets}

\* The ids a caller may name: every id a row can have had, and one more.
UserIds == 1..(MaxUsers + 1)

\* The route without its two_factor_enabled check.
login_2fa_unchecked(user_id, code) ==
    LET user == get_user_by_id(user_id) IN
    IF user = NoUser
    THEN Reply(Response("login_2fa", 404, "User not found", {}, NoUser))
    ELSE LET out == verify_2fa_login("login_2fa", user, code) IN
         IF out.resp.status = 401
         THEN Reply(Response("login_2fa", 401, "Invalid 2FA code", {}, NoUser))
         ELSE out

login_2fa(user_id, code) ==
    LET user == get_user_by_id(user_id) IN
    IF user = NoUser
    THEN Reply(Response("login_2fa", 404, "User not found", {}, NoUser))
    ELSE IF ~users[user].two_factor_enabled
    THEN Reply(Response("login_2fa", 400, "2FA is not enabled for this user",
                        {}, NoUser))
    ELSE LET out == verify_2fa_login("login_2fa", user, code) IN
         IF out.resp.status = 401
         THEN Reply(Response("login_2fa", 401, "Invalid 2FA code", {}, NoUser))
         ELSE out

Login2fa ==
    \E user_id \in UserIds, code \in Codes :
        /\ Bounded(login_2fa(user_id, code))
        /\ Commit(login_2fa(user_id, code))
        /\ UNCHANGED <<now, ticks, next_id, rotations, req>>

\* ------------------------------------------------- POST /auth/refresh
\* What a caller may present as a refresh token: any token it was handed
\* (a refresh token, or an access token by mistake) or one it signed itself.
ForgedTokens ==
    {jwt_encode([sub |-> 1, exp |-> RefreshTTL, type |-> "refresh"], ForgedKey)}

PresentedTokens == returned \cup ForgedTokens

\* The lookup by the token's subject in place of its hash.
refresh_select_by_user(refresh_token) ==
    LET payload == decode_token(refresh_token, now) IN
    IF payload = {} THEN [pc |-> "invalid"]
    ELSE LET p == CHOOSE x \in payload : TRUE
             rows == {r \in refresh_tokens :
                        r.user_id = payload_sub(p) /\ r.revoked = FALSE}
         IN
         IF payload_type(p) # "refresh" THEN [pc |-> "invalid"]
         ELSE IF rows = {} THEN [pc |-> "invalid"]
         ELSE LET db_token == CHOOSE r \in rows : TRUE
                  user_id == payload_sub(p)
              IN
              IF db_token.expires_at < now THEN [pc |-> "invalid"]
              ELSE [pc |-> "commit",
                    refresh_token |-> refresh_token,
                    db_token |-> db_token.token_hash,
                    user_id |-> user_id,
                    access_token |-> create_access_token(user_id, now),
                    new_refresh_token |-> create_refresh_token(user_id, now),
                    expires_at |-> now + RefreshTTL]

\* The lookup without its `revoked == False` filter.
refresh_select_any_row(refresh_token) ==
    LET payload == decode_token(refresh_token, now) IN
    IF payload = {} THEN [pc |-> "invalid"]
    ELSE LET p == CHOOSE x \in payload : TRUE
             token_hash == _hash_token(refresh_token)
             rows == {r \in refresh_tokens : r.token_hash = token_hash}
         IN
         IF payload_type(p) # "refresh" THEN [pc |-> "invalid"]
         ELSE IF rows = {} THEN [pc |-> "invalid"]
         ELSE LET db_token == CHOOSE r \in rows : TRUE
                  user_id == payload_sub(p)
              IN
              IF db_token.expires_at < now THEN [pc |-> "invalid"]
              ELSE [pc |-> "commit",
                    refresh_token |-> refresh_token,
                    db_token |-> db_token.token_hash,
                    user_id |-> user_id,
                    access_token |-> create_access_token(user_id, now),
                    new_refresh_token |-> create_refresh_token(user_id, now),
                    expires_at |-> now + RefreshTTL]

\* refresh_access_token up to the return of its SELECT (lines 80-119): the
\* token is decoded, the row is read and checked, the new pair is minted, and
\* the session holds the pending UPDATE and INSERT until the commit.  The
\* result is the request's pending work, or pc = "invalid" for None.  The
\* server runs up to one request per worker at a time.
refresh_select(refresh_token) ==
    LET payload == decode_token(refresh_token, now) IN
    IF payload = {} THEN [pc |-> "invalid"]
    ELSE LET p == CHOOSE x \in payload : TRUE
             token_hash == _hash_token(refresh_token)
             rows == {r \in refresh_tokens :
                        r.token_hash = token_hash /\ r.revoked = FALSE}
         IN
         IF payload_type(p) # "refresh" THEN [pc |-> "invalid"]
         ELSE IF rows = {} THEN [pc |-> "invalid"]
         ELSE LET db_token == CHOOSE r \in rows : TRUE
                  user_id == payload_sub(p)
              IN
              IF db_token.expires_at < now THEN [pc |-> "invalid"]
              ELSE [pc |-> "commit",
                    refresh_token |-> refresh_token,
                    db_token |-> db_token.token_hash,
                    user_id |-> user_id,
                    access_token |-> create_access_token(user_id, now),
                    new_refresh_token |-> create_refresh_token(user_id, now),
                    expires_at |-> now + RefreshTTL]

RefreshSelect ==
    \E refresh_token \in PresentedTokens :
        LET r == refresh_select(refresh_token) IN
        /\ BagCardinality(req) < Cardinality(Workers)
        /\ IF r.pc = "invalid"
           THEN /\ resp' = Response("refresh", 401,
                                    "Invalid or expired refresh token", {},
                                    NoUser)
                /\ UNCHANGED req
           ELSE /\ CanIssue
                /\ req' = req (+) SetToBag({r})
                /\ UNCHANGED resp
        /\ UNCHANGED <<users, refresh_tokens, oauth_accounts, now, ticks,
                       next_id, returned, rotations, challenged>>

\* The commit of refresh_access_token (line 120): the session flushes
\* UPDATE refresh_tokens SET revoked = true WHERE id = <the row read> and the
\* INSERT of the new row in one transaction.  The UPDATE names the row by its
\* primary key only; it fails (StaleDataError) when the row is gone.  The
\* INSERT fails (IntegrityError) on a duplicate token_hash or a missing user.
\* The commit with the INSERT alone: the old row keeps its flag.
refresh_commit_insert_only(r) ==
    LET new_db_token == NewRefreshToken(r.user_id,
                                        _hash_token(r.new_refresh_token),
                                        r.expires_at)
    IN
    IF r.db_token \notin TokenHashes
    THEN Reply(Response("refresh", 500, "StaleDataError", {}, NoUser))
    ELSE IF new_db_token.token_hash \in TokenHashes
            \/ r.user_id \notin DOMAIN users
    THEN Reply(Response("refresh", 500, "IntegrityError", {}, NoUser))
    ELSE Out(Response("refresh", 200, "OK",
                      {TokenPair(r.access_token, r.new_refresh_token)}, NoUser),
             users,
             refresh_tokens \cup {new_db_token})

refresh_commit(r) ==
    LET new_db_token == NewRefreshToken(r.user_id,
                                        _hash_token(r.new_refresh_token),
                                        r.expires_at)
    IN
    IF r.db_token \notin TokenHashes
    THEN Reply(Response("refresh", 500, "StaleDataError", {}, NoUser))
    ELSE IF new_db_token.token_hash \in TokenHashes
            \/ r.user_id \notin DOMAIN users
    THEN Reply(Response("refresh", 500, "IntegrityError", {}, NoUser))
    ELSE Out(Response("refresh", 200, "OK",
                      {TokenPair(r.access_token, r.new_refresh_token)}, NoUser),
             users,
             {IF x.token_hash = r.db_token
              THEN [x EXCEPT !.revoked = TRUE] ELSE x : x \in refresh_tokens}
             \cup {new_db_token})

RefreshCommit ==
    \E r \in BagToSet(req) :
        LET out == refresh_commit(r) IN
        /\ r.pc = "commit"
        /\ Commit(out)
        /\ req' = req (-) SetToBag({r})
        /\ rotations' =
             IF out.resp.status = 200
             THEN rotations \cup {<<r.refresh_token, r.new_refresh_token>>}
             ELSE rotations
        /\ UNCHANGED <<now, ticks, next_id>>

\* ------------------------------------------------- POST /auth/logout
\* The lookup filtered on `revoked == False`, as the rotation's is.
revoke_refresh_token_live_only(refresh_token) ==
    LET token_hash == _hash_token(refresh_token)
        rows == {r \in refresh_tokens :
                   r.token_hash = token_hash /\ r.revoked = FALSE}
    IN
    IF rows = {}
    THEN Reply(Response("logout", 400, "Invalid refresh token", {}, NoUser))
    ELSE Out(Response("logout", 204, "No Content", {}, NoUser),
             users,
             {IF x \in rows THEN [x EXCEPT !.revoked = TRUE] ELSE x :
                 x \in refresh_tokens})

\* The flag flipped instead of set.
revoke_refresh_token_toggles(refresh_token) ==
    LET token_hash == _hash_token(refresh_token)
        rows == {r \in refresh_tokens : r.token_hash = token_hash}
    IN
    IF rows = {}
    THEN Reply(Response("logout", 400, "Invalid refresh token", {}, NoUser))
    ELSE Out(Response("logout", 204, "No Content", {}, NoUser),
             users,
             {IF x \in rows THEN [x EXCEPT !.revoked = ~x.revoked] ELSE x :
                 x \in refresh_tokens})

revoke_refresh_token(refresh_token) ==
    LET token_hash == _hash_token(refresh_token)
        rows == {r \in refresh_tokens : r.token_hash = token_hash}
    IN
    IF rows = {}
    THEN Reply(Response("logout", 400, "Invalid refresh token", {}, NoUser))
    ELSE Out(Response("logout", 204, "No Content", {}, NoUser),
             users,
             {IF x \in rows THEN [x EXCEPT !.revoked = TRUE] ELSE x :
                 x \in refresh_tokens})

Logout ==
    \E refresh_token \in PresentedTokens :
        /\ Commit(revoke_refresh_token(refresh_token))
        /\ UNCHANGED <<now, ticks, next_id, rotations, req>>

\* ------------------------------------------------------- dependencies
\* get_current_active_user: the bearer token's user, when it resolves and the
\* user is active; NoUser when the dependency rejects the request.
get_current_active_user(token) ==
    LET user == get_user_from_token(token) IN
    IF user = NoUser THEN NoUser
    ELSE IF ~users[user].is_active THEN NoUser
    ELSE user

CurrentUsers ==
    {get_current_active_user(token) : token \in returned} \ {NoUser}

\* ------------------------------------------------- DELETE /users/me
\* revoke_all_user_tokens: the number of rows it selected, and the table
\* after it, each of them marked.
\* The user's live rows deleted instead of marked.
revoke_all_user_tokens_deletes(user_id) ==
    LET tokens == {r \in refresh_tokens :
                     r.user_id = user_id /\ r.revoked = FALSE}
    IN  [count |-> Cardinality(tokens),
         refresh_tokens |-> refresh_tokens \ tokens]

revoke_all_user_tokens(user_id) ==
    LET tokens == {r \in refresh_tokens :
                     r.user_id = user_id /\ r.revoked = FALSE}
    IN  [count |-> Cardinality(tokens),
         refresh_tokens |->
            {IF r \in tokens THEN [r EXCEPT !.revoked = TRUE] ELSE r :
                r \in refresh_tokens}]

\* "Logout everywhere": the service function on its own.
RevokeAllUserTokens ==
    \E user_id \in DOMAIN users :
        /\ Commit(Out(Response("revoke_all", 200,
                               ToString(revoke_all_user_tokens(user_id).count),
                               {}, user_id),
                      users,
                      revoke_all_user_tokens(user_id).refresh_tokens))
        /\ UNCHANGED <<now, ticks, next_id, rotations, req>>

\* delete_user after revoke_all_user_tokens: the row goes, and with it
\* (cascade) the user's refresh tokens and OAuth accounts.
delete_current_user(current_user) ==
    [resp |-> Response("delete_user", 204, "No Content", {}, current_user),
     users |-> [u \in DOMAIN users \ {current_user} |-> users[u]],
     refresh_tokens |->
        {r \in revoke_all_user_tokens(current_user).refresh_tokens :
            r.user_id # current_user},
     oauth_accounts |-> {a \in oauth_accounts : a.user_id # current_user}]

DeleteCurrentUser ==
    \E current_user \in CurrentUsers :
        /\ Commit(delete_current_user(current_user))
        /\ UNCHANGED <<now, ticks, next_id, rotations, req>>

BadRequest(op, detail) == Response(op, 400, detail, {}, NoUser)

\* ------------------------------------------------- PATCH /users/me
\* UserUpdate.email is optional; NoEmail stands for its None.
NoEmail == "None"

\* update_user behind update_current_user.
\* The email written with no look at who holds it.
update_current_user_unchecked(current_user, email) ==
    IF email = NoEmail
    THEN Reply(Response("update_user", 200, "OK", {}, current_user))
    ELSE Out(Response("update_user", 200, "OK", {}, current_user),
             [users EXCEPT ![current_user].email = email],
             refresh_tokens)

update_current_user(current_user, email) ==
    IF email = NoEmail
    THEN Reply(Response("update_user", 200, "OK", {}, current_user))
    ELSE IF get_user_by_email(email) # NoUser
            /\ get_user_by_email(email) # current_user
    THEN Reply(BadRequest("update_user", "Email already taken"))
    ELSE Out(Response("update_user", 200, "OK", {}, current_user),
             [users EXCEPT ![current_user].email = email],
             refresh_tokens)

UpdateCurrentUser ==
    \E current_user \in CurrentUsers, email \in Emails \cup {NoEmail} :
        /\ Commit(update_current_user(current_user, email))
        /\ UNCHANGED <<now, ticks, next_id, rotations, req>>

\* ------------------------------------------ POST /users/me/change-password
\* change_password behind change_user_password; `salt` is the salt bcrypt
\* draws for the new hash.
change_user_password(current_user, current_password, new_password, salt) ==
    IF users[current_user].hashed_password = NoHash
    THEN Reply(BadRequest("change_password",
                          "Cannot change password for OAuth accounts"))
    ELSE IF ~verify_password(current_password,
                             users[current_user].hashed_password)
    THEN Reply(BadRequest("change_password", "Current password is incorrect"))
    ELSE Out(Response("change_password", 204, "No Content", {}, current_user),
             [users EXCEPT ![current_user].hashed_password =
                              hash_password(salt, new_password)],
             refresh_tokens)

ChangeUserPassword ==
    \E current_user \in CurrentUsers, current_password \in Passwords,
       new_password \in Passwords, salt \in Salts :
        /\ Commit(change_user_password(current_user, current_password,
                                       new_password, salt))
        /\ UNCHANGED <<now, ticks, next_id, rotations, req>>

\* ------------------------------------------------- /auth/2fa
\* GET /auth/2fa/status
get_2fa_status(current_user) ==
    Reply(Response("2fa_status", 200,
                   IF users[current_user].two_factor_enabled
                   THEN "enabled" ELSE "disabled", {}, current_user))

Status2fa ==
    \E current_user \in CurrentUsers :
        /\ Commit(get_2fa_status(current_user))
        /\ UNCHANGED <<now, ticks, next_id, rotations, req>>

\* A pending secret kept, the new one returned and not stored.
setup_2fa_keeps_pending(current_user, secret) ==
    IF users[current_user].two_factor_enabled
    THEN Reply(BadRequest("2fa_setup", "2FA is already enabled"))
    ELSE IF users[current_user].two_factor_secret # NoSecret
    THEN Reply(Response("2fa_setup", 200, secret, {}, current_user))
    ELSE Out(Response("2fa_setup", 200, secret, {}, current_user),
             [users EXCEPT ![current_user].two_factor_secret = secret],
             refresh_tokens)

\* POST /auth/2fa/setup; `secret` is what generate_totp_secret() drew.
setup_2fa(current_user, secret) ==
    IF users[current_user].two_factor_enabled
    THEN Reply(BadRequest("2fa_setup", "2FA is already enabled"))
    ELSE Out(Response("2fa_setup", 200, secret, {}, current_user),
             [users EXCEPT ![current_user].two_factor_secret = secret],
             refresh_tokens)

Setup2fa ==
    \E current_user \in CurrentUsers, secret \in Secrets :
        /\ Commit(setup_2fa(current_user, secret))
        /\ UNCHANGED <<now, ticks, next_id, rotations, req>>

\* A wrong code throws the pending secret away.
verify_and_enable_2fa_resets(current_user, code) ==
    IF users[current_user].two_factor_enabled
    THEN Reply(BadRequest("2fa_verify", "2FA is already enabled"))
    ELSE IF users[current_user].two_factor_secret = NoSecret
    THEN Reply(BadRequest("2fa_verify",
                          "2FA setup not started. Call /auth/2fa/setup first"))
    ELSE IF ~verify_totp(users[current_user].two_factor_secret, code, now)
    THEN Out(BadRequest("2fa_verify", "Invalid 2FA code"),
             [users EXCEPT ![current_user].two_factor_secret = NoSecret],
             refresh_tokens)
    ELSE Out(Response("2fa_verify", 200, "enabled", {}, current_user),
             [users EXCEPT ![current_user].two_factor_enabled = TRUE],
             refresh_tokens)

\* The code verified before the state is looked at.
verify_and_enable_2fa_code_first(current_user, code) ==
    IF /\ users[current_user].two_factor_secret # NoSecret
       /\ ~verify_totp(users[current_user].two_factor_secret, code, now)
    THEN Reply(BadRequest("2fa_verify", "Invalid 2FA code"))
    ELSE IF users[current_user].two_factor_enabled
    THEN Reply(BadRequest("2fa_verify", "2FA is already enabled"))
    ELSE IF users[current_user].two_factor_secret = NoSecret
    THEN Reply(BadRequest("2fa_verify",
                          "2FA setup not started. Call /auth/2fa/setup first"))
    ELSE Out(Response("2fa_verify", 200, "enabled", {}, current_user),
             [users EXCEPT ![current_user].two_factor_enabled = TRUE],
             refresh_tokens)

\* POST /auth/2fa/verify
verify_and_enable_2fa(current_user, code) ==
    IF users[current_user].two_factor_enabled
    THEN Reply(BadRequest("2fa_verify", "2FA is already enabled"))
    ELSE IF users[current_user].two_factor_secret = NoSecret
    THEN Reply(BadRequest("2fa_verify",
                          "2FA setup not started. Call /auth/2fa/setup first"))
    ELSE IF ~verify_totp(users[current_user].two_factor_secret, code, now)
    THEN Reply(BadRequest("2fa_verify", "Invalid 2FA code"))
    ELSE Out(Response("2fa_verify", 200, "enabled", {}, current_user),
             [users EXCEPT ![current_user].two_factor_enabled = TRUE],
             refresh_tokens)

Verify2fa ==
    \E current_user \in CurrentUsers, code \in Codes :
        /\ Commit(verify_and_enable_2fa(current_user, code))
        /\ UNCHANGED <<now, ticks, next_id, rotations, req>>

\* The secret cleared and the flag kept.
disable_2fa_keeps_flag(current_user, code) ==
    IF ~users[current_user].two_factor_enabled
    THEN Reply(BadRequest("2fa_disable", "2FA is not enabled"))
    ELSE IF users[current_user].two_factor_secret = NoSecret
    THEN Reply(BadRequest("2fa_disable", "2FA secret not found"))
    ELSE IF ~verify_totp(users[current_user].two_factor_secret, code, now)
    THEN Reply(BadRequest("2fa_disable", "Invalid 2FA code"))
    ELSE Out(Response("2fa_disable", 200, "disabled", {}, current_user),
             [users EXCEPT ![current_user].two_factor_secret = NoSecret],
             refresh_tokens)

\* The flag cleared and the secret kept.
disable_2fa_keeps_secret(current_user, code) ==
    IF ~users[current_user].two_factor_enabled
    THEN Reply(BadRequest("2fa_disable", "2FA is not enabled"))
    ELSE IF users[current_user].two_factor_secret = NoSecret
    THEN Reply(BadRequest("2fa_disable", "2FA secret not found"))
    ELSE IF ~verify_totp(users[current_user].two_factor_secret, code, now)
    THEN Reply(BadRequest("2fa_disable", "Invalid 2FA code"))
    ELSE Out(Response("2fa_disable", 200, "disabled", {}, current_user),
             [users EXCEPT ![current_user].two_factor_enabled = FALSE],
             refresh_tokens)

\* POST /auth/2fa/disable
disable_2fa(current_user, code) ==
    IF ~users[current_user].two_factor_enabled
    THEN Reply(BadRequest("2fa_disable", "2FA is not enabled"))
    ELSE IF users[current_user].two_factor_secret = NoSecret
    THEN Reply(BadRequest("2fa_disable", "2FA secret not found"))
    ELSE IF ~verify_totp(users[current_user].two_factor_secret, code, now)
    THEN Reply(BadRequest("2fa_disable", "Invalid 2FA code"))
    ELSE Out(Response("2fa_disable", 200, "disabled", {}, current_user),
             [users EXCEPT ![current_user].two_factor_enabled = FALSE,
                           ![current_user].two_factor_secret = NoSecret],
             refresh_tokens)

Disable2fa ==
    \E current_user \in CurrentUsers, code \in Codes :
        /\ Commit(disable_2fa(current_user, code))
        /\ UNCHANGED <<now, ticks, next_id, rotations, req>>

\* ------------------------------------------- services/two_factor_service
\* What a service function does: the value it returns, or the message of
\* the ValueError it raises, and the users table as its commit leaves it.
NoError == "None"

Returned(value, users_) == [value |-> value, error |-> NoError, users |-> users_]

Raised(message) == [value |-> "None", error |-> message, users |-> users]

\* setup_2fa(db, user); `secret` is what generate_totp_secret() drew.
service_setup_2fa(user, secret) ==
    IF users[user].two_factor_enabled
    THEN Raised("2FA is already enabled")
    ELSE Returned(secret, [users EXCEPT ![user].two_factor_secret = secret])

\* enable_2fa(db, user, code)
enable_2fa(user, code) ==
    IF users[user].two_factor_enabled
    THEN Raised("2FA is already enabled")
    ELSE IF users[user].two_factor_secret = NoSecret
    THEN Raised("2FA setup not started. Call setup_2fa first")
    ELSE IF ~verify_totp(users[user].two_factor_secret, code, now)
    THEN Raised("Invalid 2FA code")
    ELSE Returned(TRUE, [users EXCEPT ![user].two_factor_enabled = TRUE])

\* disable_2fa(db, user, code)
service_disable_2fa(user, code) ==
    IF ~users[user].two_factor_enabled
    THEN Raised("2FA is not enabled")
    ELSE IF users[user].two_factor_secret = NoSecret
    THEN Raised("2FA secret not found")
    ELSE IF ~verify_totp(users[user].two_factor_secret, code, now)
    THEN Raised("Invalid 2FA code")
    ELSE Returned(TRUE, [users EXCEPT ![user].two_factor_enabled = FALSE,
                                      ![user].two_factor_secret = NoSecret])

\* ------------------------------------------- /auth/2fa, request by request
\* A request of /auth/2fa/setup or /auth/2fa/verify after its dependencies
\* have run: get_current_active_user has loaded the row `user` of
\* `current_user` into the request's session, and the handler's body has
\* not run yet.  `input` is the secret generate_totp_secret() will draw, or
\* the code the request carries.
TwoFactorRequest(op, current_user, input) ==
    [pc |-> op, current_user |-> current_user, user |-> users[current_user],
     input |-> input]

\* The body of setup_2fa on the row the session holds.  The commit flushes
\* UPDATE users SET two_factor_secret = ... WHERE id = ... ; the session
\* writes the attributes whose value changed and no other column.
setup_2fa_commit(r) ==
    IF r.user.two_factor_enabled
    THEN Reply(BadRequest("2fa_setup", "2FA is already enabled"))
    ELSE IF r.input = r.user.two_factor_secret
    THEN Reply(Response("2fa_setup", 200, r.input, {}, r.current_user))
    ELSE IF r.current_user \notin DOMAIN users
    THEN Reply(Response("2fa_setup", 500, "StaleDataError", {}, NoUser))
    ELSE Out(Response("2fa_setup", 200, r.input, {}, r.current_user),
             [users EXCEPT ![r.current_user].two_factor_secret = r.input],
             refresh_tokens)

\* The body of verify_and_enable_2fa on the row the session holds: the
\* checks and verify_totp read the session's copy, and the commit flushes
\* UPDATE users SET two_factor_enabled = true WHERE id = ... .
verify_and_enable_2fa_commit(r) ==
    IF r.user.two_factor_enabled
    THEN Reply(BadRequest("2fa_verify", "2FA is already enabled"))
    ELSE IF r.user.two_factor_secret = NoSecret
    THEN Reply(BadRequest("2fa_verify",
                          "2FA setup not started. Call /auth/2fa/setup first"))
    ELSE IF ~verify_totp(r.user.two_factor_secret, r.input, now)
    THEN Reply(BadRequest("2fa_verify", "Invalid 2FA code"))
    ELSE IF r.current_user \notin DOMAIN users
    THEN Reply(Response("2fa_verify", 500, "StaleDataError", {}, NoUser))
    ELSE Out(Response("2fa_verify", 200, "enabled", {}, r.current_user),
             [users EXCEPT ![r.current_user].two_factor_enabled = TRUE],
             refresh_tokens)

\* The dependencies of a request have run; the server runs up to one
\* request per worker at a time.
TwoFactorSelect(r) ==
    /\ BagCardinality(req) < Cardinality(Workers)
    /\ req' = req (+) SetToBag({r})
    /\ UNCHANGED <<users, refresh_tokens, oauth_accounts, now, ticks,
                   next_id, returned, rotations, resp, challenged>>

Setup2faSelect ==
    \E current_user \in CurrentUsers, secret \in Secrets :
        TwoFactorSelect(TwoFactorRequest("2fa_setup", current_user, secret))

Verify2faSelect ==
    \E current_user \in CurrentUsers, code \in Codes :
        TwoFactorSelect(TwoFactorRequest("2fa_verify", current_user, code))

Setup2faCommit ==
    \E r \in BagToSet(req) :
        /\ r.pc = "2fa_setup"
        /\ Commit(setup_2fa_commit(r))
        /\ req' = req (-) SetToBag({r})
        /\ UNCHANGED <<now, ticks, next_id, rotations>>

Verify2faCommit ==
    \E r \in BagToSet(req) :
        /\ r.pc = "2fa_verify"
        /\ Commit(verify_and_enable_2fa_commit(r))
        /\ req' = req (-) SetToBag({r})
        /\ UNCHANGED <<now, ticks, next_id, rotations>>

\* ------------------------------------------------- GET /auth/google/callback
\* A row of oauth_accounts; `id` is its uuid4 primary key, the table's only
\* key: the model declares no unique constraint on (provider,
\* provider_user_id).
NewOAuthAccount(id, user_id, provider, provider_user_id) ==
    [id |-> id, user_id |-> user_id, provider |-> provider,
     provider_user_id |-> provider_user_id]

\* A primary key no row of the table has.
FreshAccountId(accounts_) ==
    CHOOSE i \in 1..(Cardinality(accounts_) + 1) :
        \A a \in accounts_ : a.id # i

\* get_or_create_oauth_user, its reads (lines 118-135), on the tables given:
\* what the call goes on to do.  scalar_one_or_none() raises
\* MultipleResultsFound when two rows have the pair.
oauth_read(users_, accounts_, provider, provider_user_id, email) ==
    LET linked == {a \in accounts_ :
                     a.provider = provider
                     /\ a.provider_user_id = provider_user_id}
        holders == {u \in DOMAIN users_ : users_[u].email = email}
    IN
    IF Cardinality(linked) > 1 THEN [pc |-> "error"]
    ELSE IF linked # {}
    THEN [pc |-> "linked", user |-> (CHOOSE a \in linked : TRUE).user_id]
    ELSE IF holders # {}
    THEN [pc |-> "link", user |-> CHOOSE u \in holders : TRUE,
          is_active |-> users_[CHOOSE u \in holders : TRUE].is_active,
          provider |-> provider, provider_user_id |-> provider_user_id]
    ELSE [pc |-> "create", email |-> email,
          provider |-> provider, provider_user_id |-> provider_user_id]

\* The OAuth account of a new user committed without the user.
oauth_write_account_only(users_, accounts_, r, id) ==
    IF r.pc = "create"
       /\ ~\E u \in DOMAIN users_ : users_[u].email = r.email
    THEN [status |-> "ok", user |-> id,
          users |-> users_,
          oauth_accounts |-> accounts_
             \cup {NewOAuthAccount(FreshAccountId(accounts_), id,
                                   r.provider, r.provider_user_id)}]
    ELSE [status |-> "IntegrityError", user |-> NoUser,
          users |-> users_, oauth_accounts |-> accounts_]

\* The new user committed without its OAuth account.
oauth_write_user_only(users_, accounts_, r, id) ==
    IF r.pc = "create"
       /\ ~\E u \in DOMAIN users_ : users_[u].email = r.email
    THEN [status |-> "ok", user |-> id,
          users |-> [u \in DOMAIN users_ \cup {id} |->
                       IF u = id
                       THEN [NewUser(r.email, NoHash)
                                EXCEPT !.is_verified = TRUE]
                       ELSE users_[u]],
          oauth_accounts |-> accounts_]
    ELSE [status |-> "IntegrityError", user |-> NoUser,
          users |-> users_, oauth_accounts |-> accounts_]

\* get_or_create_oauth_user, its writes and commit (lines 137-165), on the
\* tables as they are by then: the user returned and the tables committed.
\* `id` is the uuid4 a new users row draws.  users.email is UNIQUE and
\* oauth_accounts.user_id references users: a commit against either raises
\* IntegrityError and writes nothing.
oauth_write(users_, accounts_, r, id) ==
    IF r.pc = "link"
    THEN IF r.user \notin DOMAIN users_
         THEN [status |-> "IntegrityError", user |-> NoUser,
               users |-> users_, oauth_accounts |-> accounts_]
         ELSE [status |-> "ok", user |-> r.user, users |-> users_,
               oauth_accounts |-> accounts_
                  \cup {NewOAuthAccount(FreshAccountId(accounts_), r.user,
                                        r.provider, r.provider_user_id)}]
    ELSE IF r.pc = "create"
    THEN IF \E u \in DOMAIN users_ : users_[u].email = r.email
         THEN [status |-> "IntegrityError", user |-> NoUser,
               users |-> users_, oauth_accounts |-> accounts_]
         ELSE [status |-> "ok", user |-> id,
               users |-> [u \in DOMAIN users_ \cup {id} |->
                            IF u = id
                            THEN [NewUser(r.email, NoHash)
                                     EXCEPT !.is_verified = TRUE]
                            ELSE users_[u]],
               oauth_accounts |-> accounts_
                  \cup {NewOAuthAccount(FreshAccountId(accounts_), id,
                                        r.provider, r.provider_user_id)}]
    ELSE [status |-> IF r.pc = "linked" THEN "ok" ELSE "MultipleResultsFound",
          user |-> IF r.pc = "linked" THEN r.user ELSE NoUser,
          users |-> users_, oauth_accounts |-> accounts_]

\* get_or_create_oauth_user called on the tables given with no other request
\* in between its reads and its commit.
get_or_create_oauth_user(users_, accounts_, id, provider, provider_user_id, email) ==
    oauth_write(users_, accounts_,
                oauth_read(users_, accounts_, provider, provider_user_id,
                           email),
                id)

\* google_callback from the return of get_or_create_oauth_user on: `w` is
\* what that call committed and `is_active` the flag on the user object it
\* returned (the session does not expire objects on commit).
google_callback(w, is_active) ==
    IF w.status # "ok"
    THEN Reply(Response("google_callback", 500, w.status, {}, NoUser))
    ELSE IF ~is_active
    THEN [resp |-> Response("google_callback", 307, "account_deactivated", {},
                            w.user),
          users |-> w.users, refresh_tokens |-> refresh_tokens,
          oauth_accounts |-> w.oauth_accounts]
    ELSE [resp |-> [create_tokens("google_callback", w.user).resp
                      EXCEPT !.user_id = w.user],
          users |-> w.users,
          refresh_tokens |->
             create_tokens("google_callback", w.user).refresh_tokens,
          oauth_accounts |-> w.oauth_accounts]

\* The callback up to the return of the reads of get_or_create_oauth_user.
\* A request that found the identity linked has nothing to write there and
\* runs to its end; one that has rows to insert holds them until its commit.
GoogleSelect ==
    \E provider_user_id \in GoogleIds, email \in Emails :
        LET r == oauth_read(users, oauth_accounts, "google", provider_user_id,
                            email)
            out == google_callback(
                      oauth_write(users, oauth_accounts, r, next_id),
                      r.pc = "linked" /\ users[r.user].is_active)
        IN
        IF r.pc \in {"linked", "error"}
        THEN /\ Bounded(out)
             /\ Commit(out)
             /\ UNCHANGED <<now, ticks, next_id, rotations, req>>
        ELSE /\ BagCardinality(req) < Cardinality(Workers)
             /\ req' = req (+) SetToBag({r})
             /\ UNCHANGED <<users, refresh_tokens, oauth_accounts, now, ticks,
                            next_id, returned, rotations, resp, challenged>>

\* The commit of get_or_create_oauth_user and the rest of the callback.
GoogleCommit ==
    \E r \in BagToSet(req) :
        /\ r.pc \in {"link", "create"}
        /\ r.pc = "create" => next_id <= MaxUsers
        /\ LET w == oauth_write(users, oauth_accounts, r, next_id)
               out == google_callback(w, r.pc = "create" \/ r.is_active)
           IN  /\ Bounded(out)
               /\ Commit(out)
               /\ next_id' = IF next_id \in DOMAIN w.users
                             THEN next_id + 1 ELSE next_id
        /\ req' = req (-) SetToBag({r})
        /\ UNCHANGED <<now, ticks, rotations>>

\* ------------------------------------------- user_service, account status
deactivate_user(user) ==
    Out(Response("deactivate", 200, "OK", {}, user),
        [users EXCEPT ![user].is_active = FALSE],
        refresh_tokens)

Deactivate ==
    \E user \in DOMAIN users :
        /\ Commit(deactivate_user(user))
        /\ UNCHANGED <<now, ticks, next_id, rotations, req>>

activate_user(user) ==
    Out(Response("activate", 200, "OK", {}, user),
        [users EXCEPT ![user].is_active = TRUE],
        refresh_tokens)

Activate ==
    \E user \in DOMAIN users :
        /\ Commit(activate_user(user))
        /\ UNCHANGED <<now, ticks, next_id, rotations, req>>

\* ---------------------------------------------------------- specifications
Next ==
    \/ Tick
    \/ Register
    \/ Login
    \/ LoginOAuth2
    \/ Login2fa
    \/ RefreshSelect
    \/ RefreshCommit
    \/ Logout
    \/ RevokeAllUserTokens
    \/ DeleteCurrentUser
    \/ UpdateCurrentUser
    \/ ChangeUserPassword
    \/ Status2fa
    \/ Setup2fa
    \/ Verify2fa
    \/ Disable2fa
    \/ Deactivate
    \/ Activate
    \/ GoogleSelect
    \/ GoogleCommit
    \/ Setup2faSelect
    \/ Setup2faCommit
    \/ Verify2faSelect
    \/ Verify2faCommit

Spec == Init /\ [][Next]_vars

\* The session manager: issuance, rotation and revocation of refresh tokens.
NextSession ==
    \/ Tick
    \/ Register
    \/ Login
    \/ RefreshSelect
    \/ RefreshCommit
    \/ Logout
    \/ RevokeAllUserTokens
    \/ DeleteCurrentUser

SpecSession == Init /\ [][NextSession]_vars

\* The two-factor state machine and the login flows it gates.
NextTwoFactor ==
    \/ Tick
    \/ Register
    \/ Login
    \/ LoginOAuth2
    \/ Login2fa
    \/ Status2fa
    \/ Setup2fa
    \/ Verify2fa
    \/ Disable2fa

SpecTwoFactor == Init /\ [][NextTwoFactor]_vars

\* Password authentication and the account-status gate.
NextLogin ==
    \/ Tick
    \/ Register
    \/ Login
    \/ LoginOAuth2
    \/ GoogleSelect
    \/ GoogleCommit
    \/ Deactivate
    \/ Activate

SpecLogin == Init /\ [][NextLogin]_vars

\* Account linking: OAuth resolution next to registration, profile update,
\* password change and account deletion.
NextOAuth ==
    \/ Tick
    \/ Register
    \/ GoogleSelect
    \/ GoogleCommit
    \/ UpdateCurrentUser
    \/ ChangeUserPassword
    \/ DeleteCurrentUser

SpecOAuth == Init /\ [][NextOAuth]_vars

\* The life of the records that hang off a user: refresh tokens issued,
\* rotated and revoked, OAuth accounts linked, and the deletion of the user.
NextRecords ==
    \/ Tick
    \/ Register
    \/ RefreshSelect
    \/ RefreshCommit
    \/ Logout
    \/ RevokeAllUserTokens
    \/ GoogleSelect
    \/ GoogleCommit
    \/ DeleteCurrentUser

SpecRecords == Init /\ [][NextRecords]_vars

\* The logins of users the Google callback created, who may have enabled
\* the second factor: the password login, the second-factor step and the
\* callback, with the two-factor setup a user goes through before.
NextSecondFactor ==
    \/ Tick
    \/ Login
    \/ Login2fa
    \/ Setup2fa
    \/ Verify2fa
    \/ GoogleSelect
    \/ GoogleCommit

SpecSecondFactor == Init /\ [][NextSecondFactor]_vars

\* The issue and the rotation of tokens next to the account's
\* deactivation and reactivation.
NextActive ==
    \/ Tick
    \/ Register
    \/ Login
    \/ RefreshSelect
    \/ RefreshCommit
    \/ Deactivate
    \/ Activate

SpecActive == Init /\ [][NextActive]_vars

\* Two-factor setup and verification, request by request: the requests of
\* one user may overlap between the load of the user and the commit.
NextTwoFactorRequests ==
    \/ Register
    \/ Login
    \/ Setup2faSelect
    \/ Setup2faCommit
    \/ Verify2faSelect
    \/ Verify2faCommit

SpecTwoFactorRequests == Init /\ [][NextTwoFactorRequests]_vars

\* No request is between its reads and its commit.
Idle == req = EmptyBag

\* Sequential execution of the session manager: a request starts only when
\* no other is in flight, so each runs from its reads to its commit with
\* nothing in between.
NextSequential ==
    \/ Idle /\ Tick
    \/ Idle /\ Register
    \/ Idle /\ Login
    \/ Idle /\ RefreshSelect
    \/ RefreshCommit
    \/ Idle /\ Logout
    \/ Idle /\ RevokeAllUserTokens

SpecSequential == Init /\ [][NextSequential]_vars

\* ================================================================== claims
Rotated == {p[1] : p \in rotations}

RowOf(token) == {r \in refresh_tokens : r.token_hash = _hash_token(token)}

\* C1: rotation invalidates the predecessor.  Once a rotation of refresh
\* token t has committed, every call of refresh_access_token(t) that starts
\* afterwards returns None (401 from the route) at its lookup, before it
\* writes or mints anything.
C1_RotatedTokenIsRejected ==
    \A t \in Rotated : refresh_select(t).pc = "invalid"

\* A refresh was just refused while a rotated token still decodes and still
\* has its row: only the revoked flag rejects it.
C1_Witness ==
    /\ resp.op = "refresh" /\ resp.status = 401
    /\ \E t \in Rotated : decode_token(t, now) # {} /\ RowOf(t) # {}

\* C2: two concurrent rotations of one refresh token never both succeed: no
\* refresh token has two descendants.
C2_AtMostOneDescendant ==
    \A p \in rotations, q \in rotations : p[1] = q[1] => p[2] = q[2]

\* C4: the revoked flag is monotonic.  In every step, a row that is revoked
\* and is still in the table afterwards is still revoked.
C4_RevokedIsMonotonic ==
    [][\A r \in refresh_tokens : \A r2 \in refresh_tokens' :
          (r.revoked /\ r2.token_hash = r.token_hash) => r2.revoked]_vars

\* Two rows revoked one after the other, the first by the rotation that
\* made the second.
C4_Witness ==
    \E p \in rotations :
        /\ \E r \in RowOf(p[1]) : r.revoked
        /\ \E r \in RowOf(p[2]) : r.revoked

\* C5: the raw refresh token is never persisted.  Every row holds the digest
\* of a refresh token that was handed out, and no row's token_hash is a token
\* string that was handed out.
C5_OnlyDigestsStored ==
    \A r \in refresh_tokens :
        /\ \E t \in Issued : r.token_hash = [sha256 |-> t]
        /\ r.token_hash \notin returned

C5_Witness ==
    \E r \in refresh_tokens : \E t \in Issued : r.token_hash = [sha256 |-> t]

\* The user a password login names and authenticates: the holder of the
\* email, when the row has a password hash and it is the hash of `password`.
Holders(email) == {u \in DOMAIN users : users[u].email = email}

Verifies(u, password) ==
    /\ users[u].hashed_password # NoHash
    /\ \E salt \in Salts :
          users[u].hashed_password = hash_password(salt, password)

\* C3: password login (POST /auth/login and POST /auth/token) of an active
\* user whose credentials verify: with two_factor_enabled it returns the
\* requires_2fa marker with the user's id and creates no refresh-token row;
\* without it, it issues a token pair.
C3_PasswordLoginOutcome ==
    \A email \in LoginEmails, password \in Passwords :
        \A u \in Holders(email) :
            (Verifies(u, password) /\ users[u].is_active) =>
                \A out \in {login(email, password),
                            login_oauth2(email, password)} :
                    IF users[u].two_factor_enabled
                    THEN /\ out.resp.status = 200
                         /\ out.resp.detail = "requires_2fa"
                         /\ out.resp.user_id = u
                         /\ out.resp.tokens = {}
                         /\ out.refresh_tokens = refresh_tokens
                    ELSE /\ out.resp.status = 200
                         /\ out.resp.tokens # {}

\* The states of the two-factor machine, read off a users row.
TwoFactorState(row) ==
    IF row.two_factor_enabled THEN "Enabled"
    ELSE IF row.two_factor_secret # NoSecret THEN "PendingVerification"
    ELSE "Disabled"

\* C6: in every step of setup, verify, disable, status and the logins, a
\* user's two-factor state stays as it is or moves along Disabled ->
\* PendingVerification -> Enabled -> Disabled, and a new user starts Disabled.
C6_TwoFactorTransitions ==
    [][\A u \in DOMAIN users' :
          IF u \in DOMAIN users
          THEN \/ TwoFactorState(users'[u]) = TwoFactorState(users[u])
               \/ <<TwoFactorState(users[u]), TwoFactorState(users'[u])>>
                     \in {<<"Disabled", "PendingVerification">>,
                          <<"PendingVerification", "Enabled">>,
                          <<"Enabled", "Disabled">>}
          ELSE TwoFactorState(users'[u]) = "Disabled"]_vars

\* A disable just succeeded: its user has gone the whole way round.
C6_Witness ==
    /\ resp.op = "2fa_disable" /\ resp.status = 200
    /\ resp.user_id \in DOMAIN users
    /\ TwoFactorState(users[resp.user_id]) = "Disabled"

\* A code is valid for a secret when it is the secret's code of the current
\* 30-second step or of a neighbouring one.
ValidCode(secret, code) ==
    \E step \in (TimeStep(now) - 1)..(TimeStep(now) + 1) :
        code = TotpAt(secret, step)

\* C7: for a user in PendingVerification, POST /auth/2fa/verify with a wrong
\* code answers 400 "Invalid 2FA code" and leaves every table as it was (the
\* user still pending, the secret the same), and with a code valid for the
\* secret it succeeds and sets two_factor_enabled, the secret kept; this holds
\* in every reachable state, so after any number of wrong attempts.
C7_ConfirmSetupRetry ==
    \A u \in DOMAIN users :
        TwoFactorState(users[u]) = "PendingVerification" =>
            \A code \in Codes :
                LET out == verify_and_enable_2fa(u, code) IN
                IF ValidCode(users[u].two_factor_secret, code)
                THEN /\ out.resp.status = 200
                     /\ out.users =
                           [users EXCEPT ![u].two_factor_enabled = TRUE]
                ELSE out = Reply(BadRequest("2fa_verify", "Invalid 2FA code"))

\* A wrong code was just refused, and the caller is still pending and has a
\* code that confirms.
C7_Witness ==
    /\ resp = BadRequest("2fa_verify", "Invalid 2FA code")
    /\ \E u \in CurrentUsers :
          /\ TwoFactorState(users[u]) = "PendingVerification"
          /\ \E code \in Codes :
                verify_and_enable_2fa(u, code).resp.status = 200

\* C8: POST /auth/login/2fa answers 404 for an unknown user id, 400 "2FA is
\* not enabled for this user" for a user whose 2FA is off, and 401 "Invalid
\* 2FA code" for a wrong code; in each case every table is left as it was and
\* no token is issued.
C8_SecondFactorFailures ==
    \A user_id \in UserIds, code \in Codes :
        LET out == login_2fa(user_id, code) IN
        IF user_id \notin DOMAIN users
        THEN out = Reply(Response("login_2fa", 404, "User not found", {},
                                  NoUser))
        ELSE IF ~users[user_id].two_factor_enabled
        THEN out = Reply(Response("login_2fa", 400,
                                  "2FA is not enabled for this user", {},
                                  NoUser))
        ELSE ~ValidCode(users[user_id].two_factor_secret, code) =>
                out = Reply(Response("login_2fa", 401, "Invalid 2FA code", {},
                                     NoUser))

\* A wrong code was just refused at the second-factor step of a user whose
\* 2FA is on.
C8_Witness ==
    /\ resp = Response("login_2fa", 401, "Invalid 2FA code", {}, NoUser)
    /\ \E u \in DOMAIN users : users[u].two_factor_enabled

\* C9: authenticate_user returns None when no user has the email, when the
\* user has no password hash, or when the password is not the one the hash
\* was made of; in every other case it returns the user with that email.
C9_AuthenticateUser ==
    \A email \in LoginEmails, password \in Passwords :
        IF \/ Holders(email) = {}
           \/ \E u \in Holders(email) : ~Verifies(u, password)
        THEN authenticate_user(email, password) = NoUser
        ELSE authenticate_user(email, password) \in Holders(email)

\* A login was just refused while there are a user with a password and an
\* OAuth-only user, so that each of the three cases has an input.
C9_Witness ==
    /\ resp.op \in {"login", "token"} /\ resp.status = 401
    /\ \E u \in DOMAIN users : users[u].hashed_password = NoHash
    /\ \E u \in DOMAIN users : users[u].hashed_password # NoHash

\* C10: a login for an inactive user with a wrong password answers 401; 403
\* "User account is deactivated" is answered only when the password verified
\* and is_active is false, and then no token is issued and no row is written.
C10_DeactivatedAfterCredentials ==
    \A email \in LoginEmails, password \in Passwords :
        \A out \in {login(email, password), login_oauth2(email, password)} :
            /\ \A u \in Holders(email) :
                  (~users[u].is_active /\ ~Verifies(u, password)) =>
                      out.resp.status = 401
            /\ out.resp.status = 403 =>
                  /\ \E u \in Holders(email) :
                        Verifies(u, password) /\ ~users[u].is_active
                  /\ out.resp.tokens = {}
                  /\ out.refresh_tokens = refresh_tokens
                  /\ out.users = users

\* A login was just answered 403, and a wrong password for that inactive
\* user is answered 401.
C10_Witness ==
    /\ resp.op = "login" /\ resp.status = 403
    /\ \E u \in DOMAIN users :
          /\ ~users[u].is_active
          /\ \E password \in Passwords :
                /\ ~Verifies(u, password)
                /\ login(users[u].email, password).resp.status = 401

\* C11: revoke_refresh_token(t) returns False (400 from POST /auth/logout)
\* and changes nothing when no row has the hash of t; when a row has it, the
\* row is revoked in the committed table, every other row and every user is
\* as before, and the call returns True (204), whether or not the row was
\* revoked already, so a second call on the same token returns True again.
C11_RevokeRefreshToken ==
    \A t \in PresentedTokens :
        LET out == revoke_refresh_token(t) IN
        IF RowOf(t) = {}
        THEN out = Reply(Response("logout", 400, "Invalid refresh token", {},
                                  NoUser))
        ELSE /\ out.resp.status = 204
             /\ out.users = users
             /\ out.refresh_tokens =
                   (refresh_tokens \ RowOf(t))
                      \cup {[r EXCEPT !.revoked = TRUE] : r \in RowOf(t)}

\* A logout just succeeded, and a token whose row is revoked is answered
\* 204 once more.
C11_Witness ==
    /\ resp.op = "logout" /\ resp.status = 204
    /\ \E t \in PresentedTokens :
          /\ \E r \in RowOf(t) : r.revoked
          /\ revoke_refresh_token(t).resp.status = 204

\* C12: revoke_all_user_tokens(u) marks every non-revoked row of u, returns
\* the number of rows it marked and leaves the rows of every other user as
\* they were; once it has returned, a second call returns 0, no refresh token
\* issued to u is accepted by the rotation's lookup, and no rotation of such
\* a token commits.
C12_RevokeAllUserTokens ==
    [][/\ \A u \in DOMAIN users :
             LET live == {r \in refresh_tokens :
                            r.user_id = u /\ ~r.revoked}
                 out == revoke_all_user_tokens(u)
             IN  /\ out.count = Cardinality(live)
                 /\ out.refresh_tokens =
                       (refresh_tokens \ live)
                          \cup {[r EXCEPT !.revoked = TRUE] : r \in live}
                 /\ \A r \in refresh_tokens :
                       r.user_id # u => r \in out.refresh_tokens
       /\ resp.op = "revoke_all" =>
             /\ resp.user_id \in DOMAIN users
             /\ revoke_all_user_tokens(resp.user_id).count = 0
             /\ \A t \in Issued :
                   t.payload.sub = resp.user_id =>
                       refresh_select(t).pc = "invalid"
             /\ \A p \in rotations' \ rotations :
                   p[1].payload.sub # resp.user_id]_vars

\* C13: get_user_from_token resolves a token to a user exactly when the
\* token is signed with the key, is not expired, has type "access" and names
\* a user that exists, and then to that user; a refresh token, a token of a
\* deleted user and a forged token resolve to None.  The result does not
\* depend on the table of refresh tokens.
C13_GetUserFromToken ==
    \A token \in PresentedTokens :
        get_user_from_token(token) =
            IF /\ token.sig = HS256(SECRET_KEY, token.payload)
               /\ token.payload.exp >= now
               /\ token.payload.type = "access"
               /\ token.payload.sub \in DOMAIN users
            THEN token.payload.sub
            ELSE NoUser

\* An access token resolves its user although the refresh token issued with
\* it has been revoked, while that refresh token itself resolves nobody.
C13_Witness ==
    \E a \in returned, r \in Issued :
        /\ a.payload.type = "access"
        /\ a.payload.sub = r.payload.sub
        /\ a.payload.exp - AccessTTL = r.payload.exp - RefreshTTL
        /\ \E row \in RowOf(r) : row.revoked
        /\ get_user_from_token(a) = a.payload.sub
        /\ a.payload.sub \in CurrentUsers
        /\ get_user_from_token(r) = NoUser

\* The rows of a table of OAuth accounts that hold a provider identity.
AccountsOf(accounts_, provider, provider_user_id) ==
    {a \in accounts_ :
        a.provider = provider /\ a.provider_user_id = provider_user_id}

\* C14: OAuth linking convergence.  From every reachable state, two calls
\* of get_or_create_oauth_user with the same (provider, provider_user_id,
\* email), one after the other, both return, return the same user, and leave
\* exactly one OAuthAccount row for the pair and exactly one user with the
\* email.
C14_LinkingConverges ==
    \A provider_user_id \in GoogleIds, email \in Emails :
        LET first == get_or_create_oauth_user(users, oauth_accounts, next_id,
                                              "google", provider_user_id,
                                              email)
            second == get_or_create_oauth_user(first.users,
                                               first.oauth_accounts,
                                               next_id + 1, "google",
                                               provider_user_id, email)
        IN  /\ first.status = "ok"
            /\ second.status = "ok"
            /\ second.user = first.user
            /\ Cardinality(AccountsOf(second.oauth_accounts, "google",
                                      provider_user_id)) = 1
            /\ Cardinality({u \in DOMAIN second.users :
                              second.users[u].email = email}) = 1

\* C15: get_or_create_oauth_user resolves in strict order.  When a row has
\* the pair it returns the row's user and writes nothing, whoever holds the
\* email; else when a user has the email it returns that user, adds one row
\* linking it and adds no user; else it adds one user with the email and one
\* row linking that user.
C15_ResolutionOrder ==
    \A provider_user_id \in GoogleIds, email \in Emails :
        LET linked == AccountsOf(oauth_accounts, "google", provider_user_id)
            w == get_or_create_oauth_user(users, oauth_accounts, next_id,
                                          "google", provider_user_id, email)
            added == w.oauth_accounts \ oauth_accounts
        IN  /\ w.status = "ok"
            /\ oauth_accounts \subseteq w.oauth_accounts
            /\ IF linked # {}
               THEN /\ \E a \in linked : w.user = a.user_id
                    /\ w.users = users
                    /\ added = {}
               ELSE /\ Cardinality(added) = 1
                    /\ \A a \in added :
                          /\ a.user_id = w.user
                          /\ a.provider = "google"
                          /\ a.provider_user_id = provider_user_id
                    /\ IF Holders(email) # {}
                       THEN w.user \in Holders(email) /\ w.users = users
                       ELSE /\ DOMAIN w.users = DOMAIN users \cup {w.user}
                            /\ w.user \notin DOMAIN users
                            /\ w.users[w.user].email = email
                            /\ \A u \in DOMAIN users : w.users[u] = users[u]

\* C16: no two rows of oauth_accounts hold the same (provider,
\* provider_user_id), in every reachable state, those reached by interleaved
\* callbacks for one provider identity included.
C16_ProviderIdentityUnique ==
    \A a \in oauth_accounts, b \in oauth_accounts :
        (a.provider = b.provider /\ a.provider_user_id = b.provider_user_id)
            => a = b

\* C17: in every reachable state a user's two_factor_secret is non-null
\* exactly when the user is Enabled or PendingVerification; a user with
\* two_factor_enabled has a secret, and a Disabled user has none.
C17_SecretIffEnabledOrPending ==
    \A u \in DOMAIN users :
        /\ users[u].two_factor_secret # NoSecret
              <=> TwoFactorState(users[u]) \in {"Enabled", "PendingVerification"}
        /\ users[u].two_factor_enabled =>
              users[u].two_factor_secret \in Secrets
        /\ TwoFactorState(users[u]) = "Disabled" =>
              users[u].two_factor_secret = NoSecret

\* A setup was just confirmed: its user is Enabled and has the secret.
C17_Witness ==
    /\ resp.op = "2fa_verify" /\ resp.status = 200
    /\ \E u \in DOMAIN users :
          users[u].two_factor_enabled /\ users[u].two_factor_secret \in Secrets

\* C18: in every reachable state, every user with a null password hash has
\* at least one OAuthAccount row linked to it, after any sequence of
\* registration, OAuth resolution, password change, profile update and user
\* deletion.
C18_PasswordlessUserIsLinked ==
    \A u \in DOMAIN users :
        users[u].hashed_password = NoHash =>
            \E a \in oauth_accounts : a.user_id = u

\* A callback just created a user without a password, and a registered
\* user, who has one, is there as well.
C18_Witness ==
    /\ resp.op = "google_callback" /\ resp.status = 200
    /\ \E u \in DOMAIN users :
          /\ users[u].hashed_password = NoHash
          /\ \E a \in oauth_accounts : a.user_id = u
    /\ \E u \in DOMAIN users : users[u].hashed_password # NoHash

\* ------------------------------------------------------------------ C19
\* The clock values at which the server minted a token, and the present one.
MintTimes ==
    {now} \cup {t.payload.exp - (IF t.payload.type = "access"
                                  THEN AccessTTL ELSE RefreshTTL) :
                 t \in returned}

\* C19: token round trip.  For every subject and both kinds, decode_token
\* applied to a token minted with that subject and kind returns a payload
\* with the same subject and kind while the clock is before the token's
\* expiry, and returns None once the clock has advanced past the expiry.
C19_TokenRoundTrip ==
    \A subject \in UserIds, t \in MintTimes :
        LET a == create_access_token(subject, t)
            r == create_refresh_token(subject, t)
        IN
        /\ now < t + AccessTTL =>
               /\ Cardinality(decode_token(a, now)) = 1
               /\ \A p \in decode_token(a, now) :
                      p.sub = subject /\ p.type = "access"
        /\ now > t + AccessTTL => decode_token(a, now) = {}
        /\ now < t + RefreshTTL =>
               /\ Cardinality(decode_token(r, now)) = 1
               /\ \A p \in decode_token(r, now) :
                      p.sub = subject /\ p.type = "refresh"
        /\ now > t + RefreshTTL => decode_token(r, now) = {}

\* A refresh token the server handed out has outlived its expiry and no
\* longer decodes, while another one it handed out later still decodes to
\* its subject.
C19_Witness ==
    \E old \in returned, new \in returned :
        /\ old.payload.type = "refresh"
        /\ old.payload.exp < now
        /\ decode_token(old, now) = {}
        /\ new.payload.type = "refresh"
        /\ now < new.payload.exp
        /\ decode_token(new, now) = {new.payload}

\* ------------------------------------------------------------------ C20
\* Correctly signed tokens that lack one of `sub`, `exp`, `type`, or carry a
\* type that is neither "access" nor "refresh".
MalformedTokens ==
    UNION {{jwt_encode([exp |-> now + AccessTTL, type |-> kind], SECRET_KEY),
            jwt_encode([sub |-> subject, type |-> kind], SECRET_KEY),
            jwt_encode([sub |-> subject, exp |-> now + AccessTTL],
                       SECRET_KEY),
            jwt_encode([sub |-> subject, exp |-> now + AccessTTL,
                        type |-> "other"], SECRET_KEY)} :
           subject \in UserIds, kind \in {"access", "refresh"}}

\* C20: a correctly signed token that lacks any of the claims sub, exp or
\* type, or whose type is neither "access" nor "refresh", is rejected:
\* decode_token returns None for it, get_user_from_token resolves no user
\* from it and refresh_access_token rotates nothing for it.
C20_MalformedTokenRejected ==
    \A token \in MalformedTokens :
        /\ decode_token(token, now) = {}
        /\ get_user_from_token(token) = NoUser
        /\ refresh_select(token).pc = "invalid"

\* ------------------------------------------------------------------ C21
\* The distances, in seconds, between the moment a code is generated and the
\* moment it is checked: up to three steps either way.
DriftSeconds == (0 - 3 * TOTP_INTERVAL)..(3 * TOTP_INTERVAL)

\* C21: TOTP drift tolerance.  A code generated for 30-second step s is
\* accepted by verify_totp when checked during step s-1, s or s+1 and
\* rejected during any step at distance 2 or more; a code generated at T is
\* accepted at T+29s and T-29s and rejected at T+65s.
C21_DriftTolerance ==
    \A secret \in Secrets, d \in DriftSeconds :
        LET T == now + 3 * TOTP_INTERVAL
            code == TotpAt(secret, TimeStep(T))
            distance == TimeStep(T + d) - TimeStep(T)
        IN
        /\ verify_totp(secret, code, T + d) = (distance \in {-1, 0, 1})
        /\ d \in {29, -29} => verify_totp(secret, code, T + d)
        /\ d = 65 => ~verify_totp(secret, code, T + d)

\* POST /auth/login/2fa has just accepted a code at a moment that is not the
\* start of a step, for a secret whose code of that moment would be accepted
\* 29 seconds later and rejected 65 seconds later.
C21_Witness ==
    /\ resp.op = "login_2fa"
    /\ resp.status = 200
    /\ now % TOTP_INTERVAL # 0
    /\ \E pair \in resp.tokens :
          LET secret == users[pair.access_token.payload.sub].two_factor_secret
              code == TotpAt(secret, TimeStep(now))
          IN
          /\ verify_totp(secret, code, now)
          /\ verify_totp(secret, code, now + 29)
          /\ ~verify_totp(secret, code, now + 65)

\* ------------------------------------------------------------------ C22
\* C22: every (email, password) pair registered through create_user
\* authenticates with authenticate_user, and every password that differs
\* from the registered one fails, for as long as the password is not
\* changed: right after the registration commits, and from each state to the
\* next while the user's row keeps its email and its password hash.
C22_RegisteredPairAuthenticates ==
    [][/\ \A email \in Emails, password \in RegisteredPasswords,
             salt \in Salts :
              LET out == create_user(next_id, email, password, salt) IN
              (out.resp.status = 201 /\ resp' = out.resp
               /\ users' = out.users) =>
                  \A candidate \in Passwords :
                      authenticate_user(email, candidate)' =
                          IF candidate = password THEN next_id ELSE NoUser
       /\ \A u \in DOMAIN users \cap DOMAIN users', candidate \in Passwords :
              (/\ users'[u].email = users[u].email
               /\ users'[u].hashed_password = users[u].hashed_password) =>
                  ((authenticate_user(users[u].email, candidate) = u)
                   <=> (authenticate_user(users[u].email, candidate)' = u))
      ]_vars

\* ------------------------------------------------------------------ C23
\* C23: a successful refresh_access_token(t) is atomic.  The step that
\* commits a rotation of t leaves the row of t revoked and exactly one new,
\* non-revoked row holding the hash of the refresh token it returns; a
\* refresh that fails writes nothing; and in every committed state, for
\* every rotation so far, the old row is revoked when it is there and the
\* old and the new row are there together or not at all.
C23_RotationIsAtomic ==
    [][/\ \A p \in rotations' \ rotations :
              /\ RowOf(p[1])' # {}
              /\ \A r \in RowOf(p[1])' : r.revoked
              /\ RowOf(p[2]) = {}
              /\ Cardinality(RowOf(p[2])') = 1
              /\ \A r \in RowOf(p[2])' : ~r.revoked
              /\ resp'.status = 200
              /\ \E pair \in resp'.tokens : pair.refresh_token = p[2]
       /\ (resp'.op = "refresh" /\ resp'.status # 200) =>
              refresh_tokens' = refresh_tokens
       /\ \A p \in rotations' :
              /\ \A r \in RowOf(p[1])' : r.revoked
              /\ (RowOf(p[1])' = {}) <=> (RowOf(p[2])' = {})
      ]_vars

\* A rotation has just committed: the response carries the new refresh
\* token, whose row is there and live, next to the revoked row of the old.
C23_Witness ==
    /\ resp.op = "refresh" /\ resp.status = 200
    /\ \E p \in rotations :
          /\ \E pair \in resp.tokens : pair.refresh_token = p[2]
          /\ \E r \in RowOf(p[1]) : r.revoked
          /\ \E r \in RowOf(p[2]) : ~r.revoked

\* ------------------------------------------------------------------ C24
\* C24: refresh_access_token fails and leaves every row as it was when the
\* presented token does not decode, is not of kind refresh, is expired by
\* the codec, has no row with its hash, has a revoked row, or has a row
\* whose expires_at has passed.  The request is refused at its reads, and
\* the step that answers 401 changes no table and leaves no write pending.
C24_RefreshFailures ==
    [][/\ \A token \in PresentedTokens :
              (\/ token.sig # HS256(SECRET_KEY, token.payload)
               \/ token.payload.type # "refresh"
               \/ token.payload.exp < now
               \/ RowOf(token) = {}
               \/ \E r \in RowOf(token) : r.revoked
               \/ \E r \in RowOf(token) : r.expires_at < now) =>
                  refresh_select(token).pc = "invalid"
       /\ (resp' # resp /\ resp'.op = "refresh" /\ resp'.status = 401) =>
              UNCHANGED <<users, refresh_tokens, oauth_accounts, returned,
                          rotations, req>>
      ]_vars

\* A refresh was just refused while a refresh token that still decodes has
\* lost its row (its owner deleted the account) and an access token is at
\* hand to be presented in its place.
C24_Witness ==
    /\ resp.op = "refresh" /\ resp.status = 401
    /\ \E t \in Issued : decode_token(t, now) # {} /\ RowOf(t) = {}
    /\ \E a \in returned : a.payload.type = "access"

\* ------------------------------------------------------------------ C25
\* C25: rows of refresh_tokens are created only by create_tokens and by
\* rotation, one per issued refresh token.  In every state each refresh
\* token handed to a caller has exactly one row holding its hash while its
\* owner exists and none once the owner is deleted, and no access token has
\* a row; and every step that adds a row is a response that hands out one
\* token pair, the row being the one of that pair's refresh token.
C25_OneRowPerRefreshToken ==
    [][/\ \A t \in returned' :
              IF t.payload.type = "refresh"
              THEN IF t.payload.sub \in DOMAIN users'
                   THEN Cardinality(RowOf(t)') = 1
                   ELSE RowOf(t)' = {}
              ELSE RowOf(t)' = {}
       /\ LET created == TokenHashes' \ TokenHashes IN
          created # {} =>
              /\ resp'.status = 200
              /\ resp'.op \in {"login", "token", "login_2fa",
                                "google_callback", "refresh"}
              /\ Cardinality(resp'.tokens) = 1
              /\ created = {_hash_token(pair.refresh_token) :
                               pair \in resp'.tokens}
      ]_vars

\* A login and a rotation have each handed out a refresh token, each with
\* its one row, and an access token handed out with them has none.
C25_Witness ==
    /\ \E p \in rotations :
          Cardinality(RowOf(p[1])) = 1 /\ Cardinality(RowOf(p[2])) = 1
    /\ \E a \in returned : a.payload.type = "access" /\ RowOf(a) = {}

\* ------------------------------------------------------------------ C26
\* C26: a newly created user starts active, unverified and in the two-factor
\* Disabled state.  The step in which create_user inserts a row from an
\* email and a password hash gives it a generated id that is not None and
\* that no row had, is_active = true, is_verified = false,
\* two_factor_enabled = false and a null two_factor_secret, and leaves the
\* other rows as they were.
C26_NewUserDefaults ==
    [][(resp' # resp /\ resp'.op = "register" /\ resp'.status = 201) =>
          LET id == resp'.user_id IN
          /\ id # NoUser
          /\ id \notin DOMAIN users
          /\ DOMAIN users' = DOMAIN users \cup {id}
          /\ users'[id].email \in Emails
          /\ users'[id].hashed_password # NoHash
          /\ users'[id].is_active = TRUE
          /\ users'[id].is_verified = FALSE
          /\ users'[id].two_factor_enabled = FALSE
          /\ users'[id].two_factor_secret = NoSecret
          /\ \A u \in DOMAIN users : users'[u] = users[u]
      ]_vars

\* A second user has just registered and has the defaults, while the first
\* has two-factor authentication enabled.
C26_Witness ==
    /\ resp.op = "register" /\ resp.status = 201
    /\ resp.user_id \in DOMAIN users
    /\ users[resp.user_id].is_active
    /\ ~users[resp.user_id].is_verified
    /\ ~users[resp.user_id].two_factor_enabled
    /\ users[resp.user_id].two_factor_secret = NoSecret
    /\ \E u \in DOMAIN users : users[u].two_factor_enabled

\* ------------------------------------------------------------------ C27
\* C27: POST /auth/2fa/setup for an Enabled user answers 400 "2FA is already
\* enabled" and leaves the secret and the flag as they were; for a user that
\* is not Enabled it stores the freshly generated secret with the flag
\* false and returns that same secret; and when the user was already
\* PendingVerification the previous secret is replaced: in the state the
\* setup leaves, /auth/2fa/verify enables 2FA for exactly the codes valid
\* for the new secret.
C27_BeginSetup ==
    [][/\ \A current_user \in CurrentUsers, secret \in Secrets :
              LET out == setup_2fa(current_user, secret) IN
              IF users[current_user].two_factor_enabled
              THEN /\ out.resp = BadRequest("2fa_setup",
                                            "2FA is already enabled")
                   /\ out.users = users
              ELSE /\ out.resp.status = 200
                   /\ out.resp.detail = secret
                   /\ out.users =
                        [users EXCEPT ![current_user] =
                            [users[current_user] EXCEPT
                                !.two_factor_secret = secret,
                                !.two_factor_enabled = FALSE]]
       /\ (resp' # resp /\ resp'.op = "2fa_setup" /\ resp'.status = 200) =>
              \A u \in UserIds, secret \in Secrets :
                  (u = resp'.user_id /\ secret = resp'.detail) =>
                      /\ users'[u].two_factor_secret = secret
                      /\ ~users'[u].two_factor_enabled
                      /\ now' = now
                      /\ \A code \in Codes :
                             (verify_and_enable_2fa(u, code).resp.status
                                 = 200)'
                             <=> ValidCode(secret, code)'
      ]_vars

\* A setup has just answered with a secret; the user is pending with that
\* secret, a current code of it would confirm the setup and a current code
\* of another secret would not.
C27_Witness ==
    /\ resp.op = "2fa_setup" /\ resp.status = 200
    /\ users[resp.user_id].two_factor_secret = resp.detail
    /\ ~users[resp.user_id].two_factor_enabled
    /\ \E good \in Codes, bad \in Codes :
          /\ verify_and_enable_2fa(resp.user_id, good).resp.status = 200
          /\ verify_and_enable_2fa(resp.user_id, bad).resp.status = 400
          /\ bad[1] # resp.detail
          /\ bad[2] = good[2]

\* ------------------------------------------------------------------ C28
\* C28: POST /auth/2fa/disable is valid only from Enabled.  It answers 400
\* "2FA is not enabled" when two_factor_enabled is false and 400 "Invalid
\* 2FA code" when the code does not verify, the secret and the flag left as
\* they were in both cases; with a valid code it sets two_factor_enabled to
\* false and clears the secret, and in the state it leaves a password login
\* of that user, active and with the right password, issues a token pair.
C28_Disable ==
    [][/\ \A current_user \in CurrentUsers, code \in Codes :
              LET out == disable_2fa(current_user, code)
                  row == users[current_user]
              IN
              IF ~row.two_factor_enabled
              THEN out = Reply(BadRequest("2fa_disable", "2FA is not enabled"))
              ELSE IF ~ValidCode(row.two_factor_secret, code)
              THEN out = Reply(BadRequest("2fa_disable", "Invalid 2FA code"))
              ELSE /\ out.resp.status = 200
                   /\ out.users =
                        [users EXCEPT ![current_user] =
                            [row EXCEPT !.two_factor_enabled = FALSE,
                                        !.two_factor_secret = NoSecret]]
       /\ (resp' # resp /\ resp'.op = "2fa_disable" /\ resp'.status = 200) =>
              \A u \in UserIds, email \in Emails, password \in Passwords :
                  (/\ u = resp'.user_id
                   /\ users'[u].email = email
                   /\ users'[u].is_active
                   /\ Verifies(u, password)') =>
                      /\ (login(email, password).resp.status = 200)'
                      /\ (login(email, password).resp.tokens # {})'
      ]_vars

\* ------------------------------------------------------------------ C29
\* C29: POST /auth/2fa/verify is valid only from PendingVerification.  For
\* an Enabled user it answers 400 "2FA is already enabled" whatever the
\* code, for a user with no secret 400 "2FA setup not started" whatever the
\* code, and in both cases every table is left as it was.
C29_ConfirmSetupOutOfState ==
    \A u \in DOMAIN users, code \in Codes :
        LET out == verify_and_enable_2fa(u, code) IN
        /\ TwoFactorState(users[u]) = "Enabled" =>
               out = Reply(BadRequest("2fa_verify", "2FA is already enabled"))
        /\ users[u].two_factor_secret = NoSecret =>
               out = Reply(BadRequest(
                         "2fa_verify",
                         "2FA setup not started. Call /auth/2fa/setup first"))

\* A confirmation was just refused as already enabled, for a caller who is
\* Enabled and holds both a code that is valid for the secret and one that
\* is not, while another user has no secret.
C29_Witness ==
    /\ resp = BadRequest("2fa_verify", "2FA is already enabled")
    /\ \E u \in CurrentUsers :
          /\ TwoFactorState(users[u]) = "Enabled"
          /\ \E code \in Codes : ValidCode(users[u].two_factor_secret, code)
          /\ \E code \in Codes : ~ValidCode(users[u].two_factor_secret, code)
    /\ \E u \in DOMAIN users : users[u].two_factor_secret = NoSecret

\* ------------------------------------------------------------------ C30
\* C30: when get_or_create_oauth_user creates a new user, the user has a
\* null password hash and is_verified = true, and the user and its
\* OAuthAccount are persisted together.  Every step in which the callback
\* adds a users row adds, in the same commit, exactly one oauth_accounts row
\* linked to it; a users row added by anything else has a password hash and
\* comes with no oauth_accounts row; and no committed state holds an
\* oauth_accounts row whose user is not there.
C30_OAuthUserAndAccountTogether ==
    [][/\ \A id \in DOMAIN users' \ DOMAIN users :
              LET linked == {a \in oauth_accounts' \ oauth_accounts :
                               a.user_id = id}
              IN
              IF resp'.op = "google_callback"
              THEN /\ users'[id].hashed_password = NoHash
                   /\ users'[id].is_verified = TRUE
                   /\ Cardinality(linked) = 1
              ELSE /\ users'[id].hashed_password # NoHash
                   /\ linked = {}
       /\ \A a \in oauth_accounts' : a.user_id \in DOMAIN users'
      ]_vars

\* A callback has just created a user: the tokens it answered with name a
\* user without a password hash, verified, with its one OAuth account.
C30_Witness ==
    /\ resp.op = "google_callback" /\ resp.status = 200
    /\ \E pair \in resp.tokens :
          LET u == pair.access_token.payload.sub IN
          /\ u \in DOMAIN users
          /\ users[u].hashed_password = NoHash
          /\ users[u].is_verified
          /\ Cardinality({a \in oauth_accounts : a.user_id = u}) = 1

\* ------------------------------------------------------------------ C31
\* C31: rows of refresh_tokens and oauth_accounts are removed only by the
\* deletion of their owning user.  A step that removes a row removes it with
\* its user, so no issue, rotation, revocation or revoke-all removes one;
\* and after a user is deleted no row of either table refers to that user.
C31_RemovedOnlyWithOwner ==
    [][/\ \A h \in TokenHashes \ TokenHashes' :
              \E r \in refresh_tokens :
                  /\ r.token_hash = h
                  /\ r.user_id \in DOMAIN users \ DOMAIN users'
       /\ \A a \in oauth_accounts :
              (~\E b \in oauth_accounts' : b.id = a.id) =>
                  a.user_id \in DOMAIN users \ DOMAIN users'
       /\ \A u \in DOMAIN users \ DOMAIN users' :
              /\ resp'.op = "delete_user"
              /\ \A r \in refresh_tokens' : r.user_id # u
              /\ \A a \in oauth_accounts' : a.user_id # u
       /\ \A r \in refresh_tokens' : r.user_id \in DOMAIN users'
       /\ \A a \in oauth_accounts' : a.user_id \in DOMAIN users'
      ]_vars

\* An account was just deleted: a refresh token issued to its user has lost
\* its row, while another user keeps a refresh token row and an OAuth
\* account.
C31_Witness ==
    /\ resp.op = "delete_user" /\ resp.status = 204
    /\ \E t \in Issued :
          t.payload.sub \notin DOMAIN users /\ RowOf(t) = {}
    /\ \E r \in refresh_tokens, a \in oauth_accounts :
          r.user_id = a.user_id /\ r.user_id \in DOMAIN users

\* ------------------------------------------------------------------ C32
\* C32: user emails are unique in every reachable state.  create_user
\* answers "Email already registered" and update_user "Email already taken"
\* when another user holds the email, both leaving every table as it was,
\* and no sequence of registrations, profile updates and OAuth resolutions,
\* concurrent ones included, commits two users with one email.
C32_EmailsUnique ==
    /\ \A u \in DOMAIN users, v \in DOMAIN users :
          users[u].email = users[v].email => u = v
    /\ \A email \in Emails, password \in Passwords, salt \in Salts :
          Holders(email) # {} =>
              create_user(next_id, email, password, salt) =
                  Reply(Response("register", 400, "Email already registered",
                                 {}, NoUser))
    /\ \A current_user \in DOMAIN users, email \in Emails :
          Holders(email) \ {current_user} # {} =>
              update_current_user(current_user, email) =
                  Reply(BadRequest("update_user", "Email already taken"))

\* A profile update was just refused because another user holds the email
\* the caller asked for.
C32_Witness ==
    /\ resp = BadRequest("update_user", "Email already taken")
    /\ Cardinality(DOMAIN users) = 2
    /\ \E u \in CurrentUsers, email \in Emails :
          Holders(email) \ {u} # {}

\* ------------------------------------------------------------------ C33
\* C33: a user with two_factor_enabled = true never receives a token pair
\* from a login flow unless a TOTP code was verified for that user in the
\* second-factor login step: every step that answers POST /auth/login,
\* POST /auth/token or GET /auth/google/callback with a token pair answers
\* it for a user whose two_factor_enabled is false, and a token pair of
\* POST /auth/login/2fa comes with a code that verifies against the user's
\* secret.
LoginFlows == {"login", "token", "google_callback"}

C33_SecondFactorGatesEveryLogin ==
    [][\A p \in resp'.tokens :
          LET user == p.access_token.payload.sub IN
          resp' # resp =>
              /\ resp'.op \in LoginFlows =>
                     ~users'[user].two_factor_enabled
              /\ resp'.op = "login_2fa" =>
                     \E code \in Codes :
                         /\ ValidCode(users[user].two_factor_secret, code)
                         /\ resp' = login_2fa(user, code).resp
      ]_vars

\* ------------------------------------------------------------------ C34
\* C34: no operation creates a RefreshTokenRecord or returns a token pair
\* for a user whose is_active is false at that moment: every row a step
\* adds to refresh_tokens, and every token pair a step's response carries,
\* is of a user who is active when the step commits.
C34_NoTokensForInactiveUser ==
    [][/\ \A r \in refresh_tokens' \ refresh_tokens :
              /\ r.user_id \in DOMAIN users'
              /\ users'[r.user_id].is_active
       /\ \A p \in resp'.tokens :
              resp' # resp =>
                  /\ p.refresh_token.payload.sub \in DOMAIN users'
                  /\ users'[p.refresh_token.payload.sub].is_active
      ]_vars

\* ------------------------------------------------------------------ C35
\* C35: every token pair issued by the second-factor login step for a user
\* is preceded, in the same history, by a successful password authentication
\* of that user: a step that answers POST /auth/login/2fa with a token pair
\* of a user is taken only after a password login has sent that user on to
\* the second-factor step (login or login_oauth2 answered requires_2fa with
\* the user's id).
C35_SecondFactorFollowsPassword ==
    [][\A p \in resp'.tokens :
          (resp' # resp /\ resp'.op = "login_2fa") =>
              p.access_token.payload.sub \in challenged
      ]_vars

\* ------------------------------------------------------------------ C36
\* C36: whenever a user is Enabled, the stored two_factor_secret is the
\* secret against which the enabling code was verified, also when a setup
\* request and a verify request of the user interleave.  The step that
\* enables a user is the commit of a verify request whose code was verified
\* against the secret the row holds after the step, and while the user stays
\* enabled the secret stays what it was.
C36_EnabledSecretIsVerifiedSecret ==
    [][\A u \in DOMAIN users' :
          users'[u].two_factor_enabled =>
              IF u \in DOMAIN users /\ users[u].two_factor_enabled
              THEN users'[u].two_factor_secret = users[u].two_factor_secret
              ELSE \E r \in BagToSet(req) :
                      /\ r.pc = "2fa_verify"
                      /\ r.current_user = u
                      /\ req' = req (-) SetToBag({r})
                      /\ verify_totp(r.user.two_factor_secret, r.input, now)
                      /\ users'[u].two_factor_secret =
                             r.user.two_factor_secret
      ]_vars

\* ------------------------------------------------------------------ C37
\* The refresh tokens create_tokens handed to a user in a login flow: those
\* handed out that no rotation produced.
LoginIssued(user_id) ==
    {t \in Issued : t.payload.sub = user_id} \ {p[2] : p \in rotations}

\* The rotation chain of a token: the token, and every token a rotation
\* made of a token of the chain.
RECURSIVE ChainFrom(_, _)
ChainFrom(tokens, n) ==
    IF n = 0 THEN tokens
    ELSE ChainFrom(tokens \cup {p[2] : p \in {q \in rotations :
                                                q[1] \in tokens}}, n - 1)

Chain(token) == ChainFrom({token}, Cardinality(rotations))

Usable == {r \in refresh_tokens : r.revoked = FALSE}

\* C37: rotation never increases the number of usable refresh tokens.  Under
\* sequential execution, in every reachable state the number of non-revoked
\* rows of a user is at most the number of token pairs create_tokens issued
\* to that user in login flows, and the rotation chain of each login's
\* token holds at most one non-revoked row.
C37_RotationKeepsUsableCount ==
    /\ \A u \in UserIds :
           Cardinality({r \in Usable : r.user_id = u}) <=
               Cardinality(LoginIssued(u))
    /\ \A u \in UserIds :
           \A t \in LoginIssued(u) :
               Cardinality({r \in Usable :
                              \E x \in Chain(t) :
                                  r.token_hash = _hash_token(x)}) <= 1

\* A login's token was rotated: its row is revoked, the row of the token the
\* rotation returned is usable, and the user has one usable row for the one
\* login.
C37_Witness ==
    \E u \in DOMAIN users, p \in rotations :
        /\ p[1] \in LoginIssued(u)
        /\ \E r \in RowOf(p[1]) : r.revoked
        /\ \E r \in RowOf(p[2]) : ~r.revoked
        /\ Cardinality(LoginIssued(u)) = 1
        /\ Cardinality({r \in Usable : r.user_id = u}) = 1
        /\ Chain(p[1]) = {p[1], p[2]}

\* ------------------------------------------------------------------ C38
\* The check a message reports; the route and the service word the message
\* of the second check of verify differently.
FailedCheck(message) ==
    IF message \in {"2FA setup not started. Call /auth/2fa/setup first",
                    "2FA setup not started. Call setup_2fa first"}
    THEN "2FA setup not started"
    ELSE message

\* The outcome of a route: success, or the check its 400 reports.
RouteOutcome(out) ==
    IF out.resp.status = 200 THEN "success" ELSE FailedCheck(out.resp.detail)

\* The outcome of a service function: success, or the check its ValueError
\* reports.
ServiceOutcome(result) ==
    IF result.error = NoError THEN "success" ELSE FailedCheck(result.error)

\* A route and a service function agree: the same outcome, and the same
\* rows (so the same two_factor_enabled and two_factor_secret) after it.
SameEffect(out, result) ==
    /\ RouteOutcome(out) = ServiceOutcome(result)
    /\ out.users = result.users

\* C38: the two-factor route handlers (setup, verify, disable) and the
\* service functions (setup_2fa, enable_2fa, disable_2fa) are equivalent:
\* from the same user state, with the same secret drawn or the same code,
\* each pair leaves the same two_factor_enabled and two_factor_secret and
\* ends in success or in the failure of the same check, the first that
\* fails in the order both evaluate them.
C38_RoutesMatchServices ==
    \A user \in DOMAIN users :
        /\ \A secret \in Secrets :
               /\ SameEffect(setup_2fa(user, secret),
                             service_setup_2fa(user, secret))
               /\ setup_2fa(user, secret).resp.status = 200 =>
                      setup_2fa(user, secret).resp.detail =
                          service_setup_2fa(user, secret).value
        /\ \A code \in Codes :
               /\ SameEffect(verify_and_enable_2fa(user, code),
                             enable_2fa(user, code))
               /\ SameEffect(disable_2fa(user, code),
                             service_disable_2fa(user, code))

\* A user has just enabled the second factor through the route: from here
\* disable succeeds in the route and in the service with a valid code and
\* fails in both with a stale one, and verify fails in both on its first
\* check, whatever the code.
C38_Witness ==
    /\ resp.op = "2fa_verify"
    /\ resp.status = 200
    /\ resp.user_id \in DOMAIN users
    /\ users[resp.user_id].two_factor_enabled
    /\ \E code \in Codes :
           /\ RouteOutcome(disable_2fa(resp.user_id, code)) = "success"
           /\ ServiceOutcome(service_disable_2fa(resp.user_id, code)) =
                  "success"
           /\ service_disable_2fa(resp.user_id, code).users # users
    /\ \E code \in Codes :
           /\ ~ValidCode(users[resp.user_id].two_factor_secret, code)
           /\ RouteOutcome(disable_2fa(resp.user_id, code)) =
                  "Invalid 2FA code"
           /\ RouteOutcome(verify_and_enable_2fa(resp.user_id, code)) =
                  "2FA is already enabled"
           /\ ServiceOutcome(enable_2fa(resp.user_id, code)) =
                  "2FA is already enabled"

====
